---- MODULE Spec2Model ----
(***************************************************************************)
(* A model of the retro-stats scripts: the 80-column GIF script            *)
(* (scripts/retro-stats-gif.js), its 39-column predecessor                 *)
(* (unnamed/part_000) and the markdown script (scripts/retro-stats.js).    *)
(*                                                                         *)
(* Every await of the scripts is one action: the action is the external    *)
(* call, its outcome (drawn with \E) and the code that runs up to the next *)
(* await.  The synchronous tail of main (panel, GIF, README, logs) is      *)
(* split into consecutive steps so that their order can be observed.       *)
(*                                                                         *)
(* Text is modelled by TLC strings (Len and \o are JavaScript's .length    *)
(* and +).  Characters outside ASCII are written with one ASCII stand-in   *)
(* per UTF-16 code unit, so every length is the length node computes:      *)
(*   box-drawing corners and tees -> "+", horizontal bar -> "-",           *)
(*   vertical bar -> "|", accented letters -> the base letter,             *)
(*   the ordinal sign in "2ª" -> "a".                                      *)
(***************************************************************************)
EXTENDS Integers, Sequences, FiniteSets, TLC

VARIABLES
  variant,          \* which script runs: "gif80", "gif39" or "md"
  pc,               \* position of main / getAllStats
  srvRepos,         \* server side: number of repositories of the account
  page,             \* listAllUserRepos: page
  allRepos,         \* listAllUserRepos / getAllStats: allRepos
  listFailed,       \* listAllUserRepos: its catch was entered
  geral,            \* getAllStats (80 columns): totalRepos, reposPublicos, reposPrivados,
                    \*   totalStars, totalForks
  userCreatedAt,    \* getAllStats (80 columns): userCreatedAt
  repoIdx,          \* getAllStats: position of `repo` in `for (const repo of allRepos)`
  srvCommits,       \* server side: commits of the current repository in the window
  cpage,            \* countCommitsLast7Days: page
  ctotal,           \* countCommitsLast7Days: total
  commitCounts,     \* history: what countCommitsLast7Days gave for each processed repository
  commitFailed,     \* history: positions of the repositories whose commit listing failed
  langHistory,      \* history: what listLanguages gave for each processed repository
  totalCommits7d,   \* getAllStats: totalCommits7d
  repoMaisAtivo,    \* getAllStats: repoMaisAtivo
  maxCommitsNoRepo, \* getAllStats: maxCommitsNoRepo
  languageTotals,   \* getAllStats: languageTotals, as its entries in insertion order
  slots,            \* getAllStats: the ranked languages and their values
  squery,           \* which search runs: "pr" or "issue"
  srvItems,         \* server side: number of items matching the current query
  spage,            \* countSearchItems: page
  stotal,           \* countSearchItems: total
  searchCalls,      \* history: the page numbers countSearchItems asked for, in order
  totalPRs7d,       \* getAllStats: totalPRs7d
  totalIssues7d,    \* getAllStats: totalIssues7d
  asciiLines,       \* main: asciiLines
  stream,           \* generateGif: writeStream ("none", "pending", "closed")
  out,              \* console.log of main, in order
  err,              \* console.error of main's catch, in order
  error,            \* the exception main's catch holds, "none" before any is thrown
  exitCode,         \* <<>> while the process runs, then <<status>>
  gifLines,         \* generateGif: asciiLines, each line as the sequence of its characters
  typedLines,       \* generateGif: typedLines
  gi,               \* generateGif: i of the typing loop, counted from 1
  gj,               \* generateGif: j of the typing loop, counted from 1
  gx,               \* generateGif: frames added by the pause loop or by the final loop
  delay,            \* the encoder's current delay (encoder.setDelay)
  frames,           \* the frames given to encoder.addFrame, in order
  gpc               \* position of generateGif: "idle", "line", "type", "pause", "hold", "finished"

\* The variables of getAllStats and of the functions it calls.
gsVars == <<page, allRepos, listFailed, geral, userCreatedAt, repoIdx, srvCommits, cpage, ctotal,
            commitCounts, commitFailed, langHistory, totalCommits7d, repoMaisAtivo,
            maxCommitsNoRepo, languageTotals, slots, squery, srvItems, spage, stotal,
            searchCalls, totalPRs7d, totalIssues7d>>

listVars == <<page, allRepos, listFailed, geral>>
commitVars == <<srvCommits, cpage, ctotal>>
histVars == <<commitCounts, commitFailed, langHistory>>
accVars == <<totalCommits7d, repoMaisAtivo, maxCommitsNoRepo, languageTotals>>
searchVars == <<squery, srvItems, spage, stotal, searchCalls, totalPRs7d, totalIssues7d>>
tailVars == <<asciiLines, stream, out, err, exitCode>>
gifVars == <<gifLines, typedLines, gi, gj, gx, delay, frames, gpc>>

----------------------------------------------------------------------------
(* Bounds and program constants *)

\* REPOS_PER_PAGE is 50 in the scripts; the model runs the same loop with small pages.
REPOS_PER_PAGE == 2

\* The largest number of repositories the account holds in the model.
MaxRepos == 3

\* perPage of countCommitsLast7Days and of countSearchItems.
perPage == 100

\* Commits of one repository in the window: none, a short page, exactly one full page.
CommitTotals == {0, 1, perPage}

\* Items matching a search: none (an empty first page), 250 (pages of 100/100/50).
SearchTotals == {0, 2 * perPage + 50}

Min(a, b) == IF a < b THEN a ELSE b

Max(a, b) == IF a < b THEN b ELSE a

Digit == <<"0", "1", "2", "3", "4", "5", "6", "7", "8", "9">>

\* Number.prototype.toString of a non-negative integer.
RECURSIVE toString(_)
toString(n) == IF n < 10 THEN Digit[n + 1] ELSE toString(n \div 10) \o Digit[(n % 10) + 1]

\* String.prototype.repeat of a one-character string; a negative count is a RangeError,
\* which the callers test before they use it.
RECURSIVE repeat(_, _)
repeat(c, n) == IF n <= 0 THEN "" ELSE c \o repeat(c, n - 1)

----------------------------------------------------------------------------
(* The server: the account's repositories, in listing order *)

RepoNames == <<"api", "site", "retro-stats-panel">>

RepoName(k) == IF k <= Len(RepoNames) THEN RepoNames[k] ELSE "repo" \o toString(k)

\* name, private, stargazers_count, forks_count of the k-th repository
Repo(k) == [name |-> RepoName(k), private |-> (k % 2 = 0), stargazers_count |-> k - 1,
            forks_count |-> k % 2]

\* The data of one page of repos.listForUser when the account holds n repositories.
RepoPage(n, p) ==
  LET first == (p - 1) * REPOS_PER_PAGE + 1
      last == Min(p * REPOS_PER_PAGE, n)
  IN  [k \in 1..Max(last - first + 1, 0) |-> Repo(first + k - 1)]

\* The length of one page of a listing of `total` items, perPage items a page.
PageLen(total, p) == Max(Min(perPage, total - (p - 1) * perPage), 0)

\* What repos.listLanguages can answer, as the entries of the object in order.
LangResponses == { <<[lang |-> "JavaScript", count |-> 1000], [lang |-> "HTML", count |-> 200]>>,
                   <<[lang |-> "Python", count |-> 1500]>>,
                   <<[lang |-> "CSS", count |-> 1000]>> }

----------------------------------------------------------------------------
(* The language tally and its ranking (pure code of getAllStats) *)

\* The position of `lang` among the entries of the tally, 0 when it has none.
IndexOf(tally, lang) ==
  IF \E k \in 1..Len(tally) : tally[k].lang = lang
  THEN CHOOSE k \in 1..Len(tally) : tally[k].lang = lang
  ELSE 0

\* if (!languageTotals[lang]) languageTotals[lang] = 0; languageTotals[lang] += count;
\* a new key goes last in the insertion order of the object.
AddLanguageOverwrites(tally, e) ==
  LET k == IndexOf(tally, e.lang)
  IN  IF k = 0
      THEN Append(tally, [lang |-> e.lang, total |-> e.count])
      ELSE [tally EXCEPT ![k].total = e.count]

AddLanguage(tally, e) ==
  LET k == IndexOf(tally, e.lang)
  IN  IF k = 0
      THEN Append(tally, [lang |-> e.lang, total |-> e.count])
      ELSE [tally EXCEPT ![k].total = (IF @ = 0 THEN 0 ELSE @) + e.count]

\* for (const [lang, count] of Object.entries(langs)) { ... }
RECURSIVE AddLanguages(_, _)
AddLanguages(tally, langs) ==
  IF langs = <<>> THEN tally
  ELSE AddLanguages(AddLanguage(tally, Head(langs)), Tail(langs))

\* The ranking variables before the scan: every name 'N/A', every value -1.
NoSlots(n) == [k \in 1..n |-> [lang |-> "N/A", value |-> -1]]

\* One pass of the body of the scan of the 80-column script over (lang, total).
\* slots[1..4] are linguagemMaisUsada/maxLangValue, segundaLinguagemMaisUsada/
\* secondMaxLangValue, terceiraLinguagemMaisUsada/thirdMaxLangValue and
\* quartaLinguagemMaisUsada/fourthMaxLangValue.
RankStep4TopOnly(s, e) ==
  LET new == [lang |-> e.lang, value |-> e.total]
  IN  IF e.total > s[1].value THEN <<new, s[1], s[2], s[3]>> ELSE s

RankStep4NoShift(s, e) ==
  LET new == [lang |-> e.lang, value |-> e.total]
  IN  IF e.total > s[1].value THEN <<new, s[2], s[3], s[4]>>
      ELSE IF e.total > s[2].value THEN <<s[1], new, s[3], s[4]>>
      ELSE IF e.total > s[3].value THEN <<s[1], s[2], new, s[4]>>
      ELSE IF e.total > s[4].value THEN <<s[1], s[2], s[3], new>>
      ELSE s

RankStep4(s, e) ==
  LET new == [lang |-> e.lang, value |-> e.total]
  IN  IF e.total > s[1].value THEN <<new, s[1], s[2], s[3]>>
      ELSE IF e.total > s[2].value THEN <<s[1], new, s[2], s[3]>>
      ELSE IF e.total > s[3].value THEN <<s[1], s[2], new, s[3]>>
      ELSE IF e.total > s[4].value THEN <<s[1], s[2], s[3], new>>
      ELSE s

\* The same for the two variables of the 39-column script.
RankStep2TieReplaces(s, e) ==
  LET new == [lang |-> e.lang, value |-> e.total]
  IN  IF e.total > s[1].value THEN <<new, s[1]>>
      ELSE IF e.total >= s[2].value THEN <<s[1], new>>
      ELSE s

RankStep2(s, e) ==
  LET new == [lang |-> e.lang, value |-> e.total]
  IN  IF e.total > s[1].value THEN <<new, s[1]>>
      ELSE IF e.total > s[2].value THEN <<s[1], new>>
      ELSE s

RECURSIVE Rank4From(_, _)
Rank4From(s, tally) ==
  IF tally = <<>> THEN s ELSE Rank4From(RankStep4(s, Head(tally)), Tail(tally))

RECURSIVE Rank2From(_, _)
Rank2From(s, tally) ==
  IF tally = <<>> THEN s ELSE Rank2From(RankStep2(s, Head(tally)), Tail(tally))

\* if (Object.keys(languageTotals).length > 0) { for ... } else { console.warn(...) }
RankLanguages(v, tally) ==
  IF v = "gif80" THEN Rank4From(NoSlots(4), tally) ELSE Rank2From(NoSlots(2), tally)

----------------------------------------------------------------------------
(* listAllUserRepos *)

\* One pass of the loop of listAllUserRepos over the outcome of repos.listForUser:
\* the repositories collected so far, and whether the loop asks for another page.
ListStepDropsShort(repos, ok, data) ==
  IF ~ok \/ Len(data) < REPOS_PER_PAGE
  THEN [repos |-> repos, more |-> FALSE]
  ELSE [repos |-> repos \o data, more |-> TRUE]

ListStep(repos, ok, data) ==
  IF ~ok THEN [repos |-> repos, more |-> FALSE]                 \* catch: break
  ELSE IF Len(data) = 0 THEN [repos |-> repos, more |-> FALSE]  \* empty page: break
  ELSE [repos |-> repos \o data, more |-> ~(Len(data) < REPOS_PER_PAGE)]

RECURSIVE SumOver(_, _)
SumOver(repos, field) ==
  IF repos = <<>> THEN 0 ELSE Head(repos)[field] + SumOver(Tail(repos), field)

\* allRepos.filter(repo => repo.private).length
CountPrivate(repos) == Cardinality({k \in 1..Len(repos) : repos[k].private})

\* totalRepos ... totalForks of the 80-column getAllStats.
GeneralStats(repos) ==
  [totalRepos |-> Len(repos),
   reposPublicos |-> Len(repos) - CountPrivate(repos),
   reposPrivados |-> CountPrivate(repos),
   totalStars |-> SumOver(repos, "stargazers_count"),
   totalForks |-> SumOver(repos, "forks_count")]

\* The variables of getAllStats before it assigns them.
FreshLocals ==
  /\ page' = 1
  /\ allRepos' = <<>>
  /\ listFailed' = FALSE
  /\ repoIdx' = 0
  /\ srvCommits' = 0
  /\ cpage' = 1
  /\ ctotal' = 0
  /\ commitCounts' = <<>>
  /\ commitFailed' = {}
  /\ langHistory' = <<>>
  /\ languageTotals' = <<>>
  /\ maxCommitsNoRepo' = 0

\* An error leaves getAllStats and reaches the catch of main: the variables of
\* getAllStats are gone, and main never receives its statistics.
Throw(e) ==
  /\ pc' = "catch"
  /\ error' = e
  /\ FreshLocals
  /\ geral' = GeneralStats(<<>>)
  /\ userCreatedAt' = "N/A"
  /\ totalCommits7d' = 0
  /\ repoMaisAtivo' = "N/A"
  /\ slots' = NoSlots(Len(slots))
  /\ squery' = "pr"
  /\ srvItems' = 0
  /\ spage' = 1
  /\ stotal' = 0
  /\ searchCalls' = <<>>
  /\ totalPRs7d' = 0
  /\ totalIssues7d' = 0

\* getAllStats enters or continues `for (const repo of allRepos)` after k repositories;
\* after the last one it ranks the languages and starts countPRsLast7Days.
AdvanceBodyFirst(k, repos, tally) ==
  /\ cpage' = 1
  /\ ctotal' = 0
  /\ srvCommits' = 0
  /\ IF k < Len(repos) \/ k = 0
     THEN /\ pc' = "commits"
          /\ repoIdx' = k + 1
          /\ UNCHANGED <<slots, searchVars>>
     ELSE /\ pc' = "search"
          /\ slots' = RankLanguages(variant, tally)
          /\ squery' = "pr"
          /\ spage' = 1
          /\ stotal' = 0
          /\ UNCHANGED <<repoIdx, srvItems, searchCalls, totalPRs7d, totalIssues7d>>

Advance(k, repos, tally) ==
  /\ cpage' = 1
  /\ ctotal' = 0
  /\ srvCommits' = 0
  /\ IF k < Len(repos)
     THEN /\ pc' = "commits"
          /\ repoIdx' = k + 1
          /\ UNCHANGED <<slots, searchVars>>
     ELSE /\ pc' = "search"
          /\ slots' = RankLanguages(variant, tally)
          /\ squery' = "pr"
          /\ spage' = 1
          /\ stotal' = 0
          /\ UNCHANGED <<repoIdx, srvItems, searchCalls, totalPRs7d, totalIssues7d>>

ListReposPage ==
  /\ pc = "list"
  /\ \E ok \in BOOLEAN :
       LET r == ListStep(allRepos, ok, RepoPage(srvRepos, page))
       IN  /\ allRepos' = r.repos
           /\ listFailed' = ~ok
           /\ IF r.more
              THEN /\ page' = page + 1
                   /\ UNCHANGED <<pc, geral, repoIdx, commitVars, slots, searchVars>>
              ELSE /\ page' = page
                   /\ IF variant = "gif80"
                      THEN /\ pc' = "user"
                           /\ geral' = GeneralStats(r.repos)
                           /\ UNCHANGED <<repoIdx, commitVars, slots, searchVars>>
                      ELSE /\ Advance(0, r.repos, languageTotals)
                           /\ UNCHANGED geral
  /\ UNCHANGED <<gifVars, variant, srvRepos, userCreatedAt, histVars, accVars, tailVars, error>>

\* octokit.users.getByUsername of the 80-column script, inside its own try/catch.
\* let userCreatedAt = 'N/A'; try { ... userCreatedAt = ...split('T')[0]; } catch { log }
\* what the statement leaves in userCreatedAt, and the error that leaves it, if any.
UserLookupUncaught(ok) ==
  IF ok THEN [createdAt |-> "2015-03-14", error |-> "none"]
  ELSE [createdAt |-> "N/A", error |-> "user"]

UserLookup(ok) ==
  IF ok THEN [createdAt |-> "2015-03-14", error |-> "none"]
  ELSE [createdAt |-> "N/A", error |-> "none"]

GetUser ==
  /\ pc = "user"
  /\ \E ok \in BOOLEAN :
       LET r == UserLookup(ok)
       IN  IF r.error = "none"
           THEN /\ userCreatedAt' = r.createdAt
                /\ Advance(0, allRepos, languageTotals)
                /\ UNCHANGED <<listVars, histVars, accVars, error>>
           ELSE Throw(r.error)
  /\ UNCHANGED <<gifVars, variant, srvRepos, tailVars>>

----------------------------------------------------------------------------
(* countCommitsLast7Days and the commit part of the loop of getAllStats *)

\* What countCommitsLast7Days does when repos.listCommits fails with `outcome`
\* ("404" or "error"): the 80-column script returns 0 from one of its two catch
\* blocks, the 39-column script has no try and the error leaves getAllStats.
CommitFailure(v, outcome) ==
  IF v = "gif80" THEN "return0" ELSE "throw"

\* if (commitsCount > maxCommitsNoRepo) { maxCommitsNoRepo = commitsCount; repoMaisAtivo = name; }
MostActiveKeepsMax(best, count, name) ==
  IF count > best.max THEN [max |-> best.max, repo |-> name] ELSE best

MostActiveLastWins(best, count, name) ==
  IF count >= best.max THEN [max |-> count, repo |-> name] ELSE best

MostActive(best, count, name) ==
  IF count > best.max THEN [max |-> count, repo |-> name] ELSE best

\* getAllStats receives commitsCount for the current repository.
CommitDoneListsAgain(count, failed) ==
  LET best == MostActive([max |-> maxCommitsNoRepo, repo |-> repoMaisAtivo], count,
                         allRepos[repoIdx].name)
  IN  /\ totalCommits7d' = totalCommits7d + count
      /\ maxCommitsNoRepo' = best.max
      /\ repoMaisAtivo' = best.repo
      /\ commitCounts' = Append(commitCounts, count)
      /\ commitFailed' = IF failed THEN commitFailed \cup {repoIdx} ELSE commitFailed
      /\ pc' = "commits"
      /\ UNCHANGED <<listVars, userCreatedAt, repoIdx, cpage, langHistory, languageTotals,
                     slots, searchVars, error>>

CommitDone(count, failed) ==
  LET best == MostActive([max |-> maxCommitsNoRepo, repo |-> repoMaisAtivo], count,
                         allRepos[repoIdx].name)
  IN  /\ totalCommits7d' = totalCommits7d + count
      /\ maxCommitsNoRepo' = best.max
      /\ repoMaisAtivo' = best.repo
      /\ commitCounts' = Append(commitCounts, count)
      /\ commitFailed' = IF failed THEN commitFailed \cup {repoIdx} ELSE commitFailed
      /\ pc' = "langs"
      /\ UNCHANGED <<listVars, userCreatedAt, repoIdx, cpage, langHistory, languageTotals,
                     slots, searchVars, error>>

ListCommitsPage ==
  /\ pc = "commits"
  /\ \/ \E total \in (IF cpage = 1 THEN CommitTotals ELSE {srvCommits}) :
          LET len == PageLen(total, cpage)
          IN  /\ srvCommits' = total
              /\ ctotal' = ctotal + len
              /\ IF len < perPage
                 THEN CommitDone(ctotal + len, FALSE)
                 ELSE /\ cpage' = cpage + 1
                      /\ UNCHANGED <<pc, listVars, userCreatedAt, repoIdx, histVars, accVars,
                                     slots, searchVars, error>>
     \/ \E outcome \in {"404", "error"} :
          IF CommitFailure(variant, outcome) = "return0"
          THEN /\ CommitDone(0, TRUE)
               /\ UNCHANGED <<srvCommits, ctotal>>
          ELSE Throw("commits")
  /\ UNCHANGED <<gifVars, variant, srvRepos, tailVars>>

\* octokit.repos.listLanguages for the current repository, inside its own try/catch;
\* a failed call is recorded in the history as the empty answer.
ListLanguages ==
  /\ pc = "langs"
  /\ \/ \E langs \in LangResponses :
          /\ languageTotals' = AddLanguages(languageTotals, langs)
          /\ langHistory' = Append(langHistory, langs)
     \/ /\ languageTotals' = languageTotals
        /\ langHistory' = Append(langHistory, <<>>)
  /\ Advance(repoIdx, allRepos, languageTotals')
  /\ UNCHANGED <<gifVars, variant, srvRepos, listVars, userCreatedAt, commitCounts, commitFailed,
                 totalCommits7d, repoMaisAtivo, maxCommitsNoRepo, tailVars, error>>

----------------------------------------------------------------------------
(* countSearchItems, called by countPRsLast7Days and then countIssuesLast7Days *)

\* One pass of the loop of countSearchItems over a page of `len` items.
SearchStepStopsOnFull(total, len) ==
  [total |-> total + len, more |-> FALSE]

SearchStep(total, len) ==
  [total |-> total + len, more |-> ~(len < perPage)]

\* searchCalls is the list of the pages the running (or the last finished)
\* countSearchItems asked for; a new call of the function starts it again.
\* When the issue count is in, getAllStats returns: its other variables are gone.
SearchPage ==
  /\ pc = "search"
  /\ \/ \E total \in (IF spage = 1 THEN SearchTotals ELSE {srvItems}) :
          LET r == SearchStep(stotal, PageLen(total, spage))
          IN  /\ srvItems' = total
              /\ searchCalls' = IF spage = 1 THEN <<1>> ELSE Append(searchCalls, spage)
              /\ error' = error
              /\ IF r.more
                 THEN /\ spage' = spage + 1
                      /\ stotal' = r.total
                      /\ UNCHANGED <<pc, squery, totalPRs7d, totalIssues7d, listVars, repoIdx,
                                     commitVars, histVars, accVars>>
                 ELSE /\ spage' = 1
                      /\ stotal' = 0
                      /\ IF squery = "pr"
                         THEN /\ totalPRs7d' = r.total
                              /\ squery' = "issue"
                              /\ UNCHANGED <<pc, totalIssues7d, listVars, repoIdx, commitVars,
                                             histVars, accVars>>
                         ELSE /\ totalIssues7d' = r.total
                              /\ pc' = "panel"
                              /\ FreshLocals
                              /\ UNCHANGED <<squery, totalPRs7d, geral, totalCommits7d,
                                             repoMaisAtivo>>
              /\ UNCHANGED <<userCreatedAt, slots>>
     \/ Throw("search")
  /\ UNCHANGED <<gifVars, variant, srvRepos, tailVars>>

----------------------------------------------------------------------------
(* The panel: step 3 of main *)

\* LARGURA_LINHA of the 80-column script and of the 39-column script.
LARGURA_LINHA_80 == 80

LARGURA_LINHA_39 == 39

LARGURA_LINHA(v) == IF v = "gif80" THEN LARGURA_LINHA_80 ELSE LARGURA_LINHA_39

\* What stands for a line when " ".repeat(n) throws its RangeError (n < 0).
RangeError == "RangeError: Invalid count value"

\* const espacoDisponivel = LARGURA_LINHA - texto.length - valor.length - 4;
espacoDisponivel(W, texto, valor) == W - Len(texto) - Len(valor) - 4

\* return `| ${texto}${" ".repeat(espacoDisponivel)}${valor} |`;
formatarLinha(W, texto, valor) ==
  IF espacoDisponivel(W, texto, valor) < 0 THEN RangeError
  ELSE "| " \o texto \o repeat(" ", espacoDisponivel(W, texto, valor)) \o valor \o " |"

\* criarLinhaTitulo of the 80-column script.
criarLinhaTituloEvenSplit(W, texto) ==
  LET espacos == W - Len(texto) - 4
      espacosEsquerda == espacos \div 2
  IN  IF espacos < 0 THEN RangeError
      ELSE "| " \o repeat(" ", espacosEsquerda) \o texto \o repeat(" ", espacosEsquerda) \o " |"

criarLinhaTitulo(W, texto) ==
  LET espacos == W - Len(texto) - 4
      espacosEsquerda == espacos \div 2
      espacosDireita == espacos - espacosEsquerda
  IN  IF espacos < 0 THEN RangeError
      ELSE "| " \o repeat(" ", espacosEsquerda) \o texto \o repeat(" ", espacosDireita) \o " |"

\* linhaSuperior, linhaSeparadora and linhaInferior of the 80-column script.
linhaBorda(W) == IF W - 2 < 0 THEN RangeError ELSE "+" \o repeat("-", W - 2) \o "+"

\* ` Last update: ${dataAgora} `, dataAgora being "YYYY-MM-DD HH:MM:SS UTC".
linhaUpdate == " Last update: 2025-03-05 02:00:00 UTC "

\* What getAllStats returns to main.
Stats ==
  [totalCommits7d |-> totalCommits7d, repoMaisAtivo |-> repoMaisAtivo,
   totalPRs7d |-> totalPRs7d, totalIssues7d |-> totalIssues7d, slots |-> slots,
   totalRepos |-> geral.totalRepos, reposPublicos |-> geral.reposPublicos,
   reposPrivados |-> geral.reposPrivados, totalStars |-> geral.totalStars,
   totalForks |-> geral.totalForks, userCreatedAt |-> userCreatedAt]

\* The rows of the 80-column panel: label and value of each formatarLinha, by line.
Rows80(st) ==
  [k \in {4, 5, 6, 7, 11, 12, 13, 14, 15, 16, 20, 21, 22, 23} |->
     CASE k = 4 -> <<"Commits:", toString(st.totalCommits7d)>>
       [] k = 5 -> <<"PRs criadas:", toString(st.totalPRs7d)>>
       [] k = 6 -> <<"Issues abertas:", toString(st.totalIssues7d)>>
       [] k = 7 -> <<"Repositorio + ativo:", st.repoMaisAtivo>>
       [] k = 11 -> <<"Total de repositorios:", toString(st.totalRepos)>>
       [] k = 12 -> <<"Repositorios publicos:", toString(st.reposPublicos)>>
       [] k = 13 -> <<"Repositorios privados:", toString(st.reposPrivados)>>
       [] k = 14 -> <<"Total de stars:", toString(st.totalStars)>>
       [] k = 15 -> <<"Total de forks:", toString(st.totalForks)>>
       [] k = 16 -> <<"Conta criada em:", st.userCreatedAt>>
       [] k = 20 -> <<"Linguagem + usada:", st.slots[1].lang>>
       [] k = 21 -> <<"2a linguagem + usada:", st.slots[2].lang>>
       [] k = 22 -> <<"3a linguagem + usada:", st.slots[3].lang>>
       [] k = 23 -> <<"4a linguagem + usada:", st.slots[4].lang>>]

\* The rows of the 39-column panel.
Rows39(st) ==
  [k \in {4, 5, 6, 8, 9, 10} |->
     CASE k = 4 -> <<"Commits (ultimos 7 dias):", toString(st.totalCommits7d)>>
       [] k = 5 -> <<"PRs criadas (ultimos 7 dias):", toString(st.totalPRs7d)>>
       [] k = 6 -> <<"Issues abertas (ultimos 7 dias):", toString(st.totalIssues7d)>>
       [] k = 8 -> <<"Linguagem + usada:", st.slots[1].lang>>
       [] k = 9 -> <<"2a linguagem + usada:", st.slots[2].lang>>
       [] k = 10 -> <<"Repositorio + ativo:", st.repoMaisAtivo>>]

Rows(v, st) == IF v = "gif80" THEN Rows80(st) ELSE Rows39(st)

\* The titles of the 80-column panel, by line.
Titles80 ==
  [k \in {2, 9, 18} |->
     CASE k = 2 -> "Estatisticas dos ultimos 7 dias"
       [] k = 9 -> "Estatisticas Gerais"
       [] k = 18 -> "Linguagens Mais Usadas"]

\* const asciiLines = [ ... ] of the 80-column script: each element as the script computes it.
Panel80(st) ==
  [k \in 1..25 |->
     IF k \in {1, 3, 8, 10, 17, 19, 24} THEN linhaBorda(LARGURA_LINHA_80)
     ELSE IF k \in DOMAIN Titles80 THEN criarLinhaTitulo(LARGURA_LINHA_80, Titles80[k])
     ELSE IF k = 25 THEN linhaUpdate
     ELSE formatarLinha(LARGURA_LINHA_80, Rows80(st)[k][1], Rows80(st)[k][2])]

\* const asciiLines = [ ... ] of the 39-column script: its border and title lines are literals.
Panel39(st) ==
  [k \in 1..12 |->
     IF k \in {1, 3, 7, 11} THEN "+-------------------------------------+"
     ELSE IF k = 2 THEN "|              Statistics             |"
     ELSE IF k = 12 THEN linhaUpdate
     ELSE formatarLinha(LARGURA_LINHA_39, Rows39(st)[k][1], Rows39(st)[k][2])]

Panel(v, st) == IF v = "gif80" THEN Panel80(st) ELSE Panel39(st)

\* The lines of the panel that are borders, separators or centered titles.
FrameLines(v) == IF v = "gif80" THEN {1, 2, 3, 8, 9, 10, 17, 18, 19, 24} ELSE {1, 2, 3, 7, 11}

\* Building the array throws as soon as one element throws.
PanelThrows(lines) == \E k \in DOMAIN lines : lines[k] = RangeError

BuildPanel ==
  /\ pc = "panel"
  /\ LET lines == Panel(variant, Stats)
     IN  IF PanelThrows(lines)
         THEN /\ pc' = "catch"
              /\ error' = "panel"
              /\ UNCHANGED asciiLines
         ELSE /\ pc' = "gif"
              /\ asciiLines' = lines
              /\ UNCHANGED error
  /\ UNCHANGED <<gifVars, variant, srvRepos, gsVars, stream, out,
                 err, exitCode>>

----------------------------------------------------------------------------
(* generateGif, generateReadme and the rest of main *)

\* generateGif as main sees it: it creates the write stream, pipes the encoder into it,
\* adds the frames and calls encoder.finish(), all synchronously; it returns without
\* waiting for the stream, whose data is still to be written by the event loop.  A
\* throw of canvas or of the encoder leaves it before or after the stream was created.
GenerateGif ==
  /\ pc = "gif"
  /\ \/ /\ stream' = "pending"
        /\ pc' = "logGif"
        /\ UNCHANGED error
     \/ /\ stream' \in {"none", "pending"}
        /\ pc' = "catch"
        /\ error' = "gif"
  /\ UNCHANGED <<gifVars, variant, srvRepos, gsVars, asciiLines,
                 out, err, exitCode>>

\* console.log("GIF gerado e salvo como retro-stats.gif");
LogGif ==
  /\ pc = "logGif"
  /\ out' = Append(out, "GIF gerado e salvo como retro-stats.gif")
  /\ pc' = "readme"
  /\ UNCHANGED <<gifVars, variant, srvRepos, gsVars, asciiLines,
                 stream, err, error, exitCode>>

\* generateReadme: fs.writeFileSync either writes README.md or throws; the function
\* logs the error and throws it again.
GenerateReadme ==
  /\ pc = "readme"
  /\ \/ /\ pc' = "logReadme"
        /\ UNCHANGED <<err, error>>
     \/ /\ err' = Append(err, "Erro ao gerar README.md:")
        /\ error' = "readme"
        /\ pc' = "catch"
  /\ UNCHANGED <<gifVars, variant, srvRepos, gsVars, asciiLines,
                 stream, out, exitCode>>

\* console.log("README.md gerado com sucesso!"); main returns.
LogReadme ==
  /\ pc = "logReadme"
  /\ out' = Append(out, "README.md gerado com sucesso!")
  /\ pc' = "done"
  /\ UNCHANGED <<gifVars, variant, srvRepos, gsVars, asciiLines,
                 stream, err, error, exitCode>>

\* What the catch of main writes with console.error: the GIF scripts a fixed message
\* (followed by the error), the markdown script the error itself.
CatchMessage(v, e) == IF v = "md" THEN e ELSE "Erro ao gerar estatisticas e GIF:"

\* catch (error) { console.error(..., error);
Catch ==
  /\ pc = "catch"
  /\ err' = Append(err, CatchMessage(variant, error))
  /\ pc' = "exit"
  /\ UNCHANGED <<gifVars, variant, srvRepos, gsVars, asciiLines,
                 stream, out, error, exitCode>>

\* The status the catch of main gives process.exit after the error e.
CatchStatusZero(e) == 0

CatchStatus(e) == 1

\*   process.exit(1); }  The process ends at once, whatever is still pending.
ProcessExit ==
  /\ pc = "exit"
  /\ exitCode' = <<CatchStatus(error)>>
  /\ pc' = "exited"
  /\ UNCHANGED <<gifVars, variant, srvRepos, gsVars, asciiLines,
                 stream, out, err, error>>

\* The event loop, once main has returned: the encoder's data reaches the file and
\* the write stream ends.  Nothing of it runs while main runs: after generateGif main
\* awaits only promises that are already settled.
StreamFlush ==
  /\ pc = "done"
  /\ stream = "pending"
  /\ stream' = "closed"
  /\ UNCHANGED <<gifVars, variant, srvRepos, pc, gsVars, asciiLines,
                 out, err, error, exitCode>>

\* Nothing is pending any more: node ends the process with status 0.
ProcessEnd ==
  /\ pc = "done"
  /\ stream # "pending"
  /\ exitCode' = <<0>>
  /\ pc' = "exited"
  /\ UNCHANGED <<gifVars, variant, srvRepos, gsVars, asciiLines,
                 stream, out, err, error>>

----------------------------------------------------------------------------
(* scripts/retro-stats.js *)

\* getGitHubData: one page of repos.listForUser; repos.data[0].name is a TypeError
\* when the account has no repository.  gerarPainelRetro follows and cannot throw.
MdGetGitHubData ==
  /\ pc = "md_list"
  /\ \/ /\ srvRepos > 0
        /\ repoMaisAtivo' = Repo(1).name
        /\ pc' = "md_write"
        /\ UNCHANGED error
     \/ /\ srvRepos = 0
        /\ error' = "TypeError"
        /\ pc' = "catch"
        /\ UNCHANGED repoMaisAtivo
     \/ /\ error' = "HttpError"
        /\ pc' = "catch"
        /\ UNCHANGED repoMaisAtivo
  /\ UNCHANGED <<gifVars, variant, srvRepos, listVars, userCreatedAt, repoIdx, commitVars, histVars,
                 totalCommits7d, maxCommitsNoRepo, languageTotals, slots, searchVars,
                 tailVars>>

\* fs.writeFileSync(outputPath, ...); console.log("Arquivo retro-stats.md ...");
MdWrite ==
  /\ pc = "md_write"
  /\ \/ /\ out' = Append(out, "Arquivo retro-stats.md atualizado com sucesso!")
        /\ pc' = "done"
        /\ UNCHANGED error
     \/ /\ error' = "WriteError"
        /\ pc' = "catch"
        /\ UNCHANGED out
  /\ UNCHANGED <<gifVars, variant, srvRepos, gsVars, asciiLines,
                 stream, err, exitCode>>

----------------------------------------------------------------------------
(* A run of one of the scripts *)

vars == <<variant, pc, srvRepos, page, allRepos, listFailed, geral, userCreatedAt, repoIdx, srvCommits, cpage,
          ctotal, commitCounts, commitFailed, langHistory, totalCommits7d, repoMaisAtivo,
          maxCommitsNoRepo, languageTotals, slots, squery, srvItems, spage, stotal,
          searchCalls, totalPRs7d, totalIssues7d, asciiLines, stream, out, err, error,
          exitCode, gifLines, typedLines, gi, gj, gx, delay, frames, gpc>>

\* The loop variables of getAllStats and of the functions it calls, before the loop.
FreshLoop ==
  /\ page = 1
  /\ allRepos = <<>>
  /\ listFailed = FALSE
  /\ repoIdx = 0
  /\ srvCommits = 0
  /\ cpage = 1
  /\ ctotal = 0
  /\ commitCounts = <<>>
  /\ commitFailed = {}
  /\ langHistory = <<>>
  /\ maxCommitsNoRepo = 0
  /\ squery = "pr"
  /\ srvItems = 0
  /\ spage = 1
  /\ stotal = 0
  /\ searchCalls = <<>>

\* The statistics of getAllStats before anything is counted.
FreshStats ==
  /\ geral = GeneralStats(<<>>)
  /\ userCreatedAt = "N/A"
  /\ totalCommits7d = 0
  /\ repoMaisAtivo = "N/A"
  /\ totalPRs7d = 0
  /\ totalIssues7d = 0

\* The variables of main before getAllStats returns.
FreshMain ==
  /\ asciiLines = <<>>
  /\ stream = "none"
  /\ out = <<>>
  /\ err = <<>>
  /\ error = "none"
  /\ exitCode = <<>>

\* The values of the variables of getAllStats and main when a script starts.
Fresh ==
  /\ FreshLoop
  /\ FreshStats
  /\ languageTotals = <<>>
  /\ FreshMain

\* generateGif has not been entered.
GifIdle ==
  /\ gifLines = <<>>
  /\ typedLines = <<>>
  /\ gi = 1
  /\ gj = 1
  /\ gx = 0
  /\ delay = 0
  /\ frames = <<>>
  /\ gpc = "idle"

Init ==
  /\ variant \in {"gif80", "gif39", "md"}
  /\ srvRepos \in 0..MaxRepos
  /\ pc = IF variant = "md" THEN "md_list" ELSE "list"
  /\ slots = NoSlots(IF variant = "gif80" THEN 4 ELSE 2)
  /\ Fresh
  /\ GifIdle

Next ==
  \/ ListReposPage
  \/ GetUser
  \/ ListCommitsPage
  \/ ListLanguages
  \/ SearchPage
  \/ BuildPanel
  \/ GenerateGif
  \/ LogGif
  \/ GenerateReadme
  \/ LogReadme
  \/ Catch
  \/ ProcessExit
  \/ StreamFlush
  \/ ProcessEnd
  \/ MdGetGitHubData
  \/ MdWrite

Spec == Init /\ [][Next]_vars

----------------------------------------------------------------------------
(* Properties of the repository loop of getAllStats *)

\* The largest of a non-empty sequence of numbers.
MaxOf(counts) == CHOOSE m \in {counts[k] : k \in 1..Len(counts)} :
                   \A k \in 1..Len(counts) : counts[k] <= m

\* The first position that holds the largest number.
FirstMaxIdx(counts) == CHOOSE k \in 1..Len(counts) :
                         /\ counts[k] = MaxOf(counts)
                         /\ \A h \in 1..(k - 1) : counts[h] < MaxOf(counts)

\* Two or more of the processed repositories share the largest commit count.
TieAtMax ==
  /\ commitCounts # <<>>
  /\ \E h, k \in 1..Len(commitCounts) :
       h < k /\ commitCounts[h] = MaxOf(commitCounts) /\ commitCounts[k] = MaxOf(commitCounts)

\* C2 (as claimed): a repository whose commit listing failed adds 0 to the commit
\* total and 0 to the language tally, is never the most active repository, and its
\* failure never ends the run: the error does not reach the catch of main.
C2_FailedCommitListingIsZero ==
  /\ error # "commits"
  /\ \A k \in commitFailed :
       /\ k <= Len(commitCounts) => commitCounts[k] = 0
       /\ k <= Len(langHistory) => langHistory[k] = <<>>
       /\ k <= Len(allRepos) => repoMaisAtivo # allRepos[k].name

\* C4 (as claimed): whenever two or more repositories share the largest commit count,
\* the first of them in listing order is the repository reported as most active.
C4_TieReportsFirst ==
  TieAtMax => repoMaisAtivo = allRepos[FirstMaxIdx(commitCounts)].name

\* C4 (amended): whenever two or more repositories share the largest commit count and
\* that count is greater than 0, the first of them in listing order is the repository
\* reported as most active; when the largest count is 0 none is reported ('N/A').
C4_PositiveTieReportsFirst ==
  TieAtMax =>
    repoMaisAtivo = IF MaxOf(commitCounts) > 0
                    THEN allRepos[FirstMaxIdx(commitCounts)].name
                    ELSE "N/A"

\* C4 witness: the loop is over, two repositories tie at a positive largest count and
\* the second of them is not the last repository.
C4_Witness ==
  /\ pc = "search"
  /\ Len(commitCounts) = 3
  /\ commitCounts[1] = 0
  /\ commitCounts[2] = 1
  /\ commitCounts[3] = 1
  /\ repoMaisAtivo = allRepos[2].name

----------------------------------------------------------------------------
(* Properties of countSearchItems *)

\* A call of countSearchItems has returned and no later one has started: the PR count
\* is in and the issue search is about to ask for its first page, or getAllStats has
\* returned.
SearchReturned ==
  /\ searchCalls # <<>>
  /\ spage = 1
  /\ pc = "search" => squery = "issue"

\* What that call returned.
SearchResult == IF pc = "search" THEN totalPRs7d ELSE totalIssues7d

\* C3: when the server holds T items for the query and serves them as full pages of
\* 100 followed by one shorter (possibly empty) page, countSearchItems returns T after
\* exactly floor(T/100)+1 calls, for the pages 1, 2, ... in this order.
C3_SearchCountsAllPages ==
  SearchReturned =>
    /\ SearchResult = srvItems
    /\ Len(searchCalls) = (srvItems \div perPage) + 1
    /\ \A k \in 1..Len(searchCalls) : searchCalls[k] = k

\* C3 witness: 250 items were counted in 3 calls.
C3_Witness ==
  /\ SearchReturned
  /\ srvItems = 250
  /\ SearchResult = 250
  /\ searchCalls = <<1, 2, 3>>

----------------------------------------------------------------------------
(* Properties of listAllUserRepos *)

\* The first n repositories of the account, in listing order.
FirstRepos(n) == [k \in 1..n |-> Repo(k)]

\* listAllUserRepos has returned and the variables of getAllStats are still there.
ListingReturned == pc \in {"user", "commits", "langs", "search"}

\* While it runs, listAllUserRepos holds the page - 1 full pages it received; once it
\* has returned, allRepos is all of the account's repositories, the loop having
\* stopped at the first short or empty page, or the full pages before the failed call.
ListingResult ==
  /\ pc = "list" =>
       /\ (page - 1) * REPOS_PER_PAGE <= srvRepos
       /\ allRepos = FirstRepos((page - 1) * REPOS_PER_PAGE)
  /\ ListingReturned =>
       IF listFailed
       THEN /\ (page - 1) * REPOS_PER_PAGE <= srvRepos
            /\ allRepos = FirstRepos((page - 1) * REPOS_PER_PAGE)
       ELSE /\ page = (srvRepos \div REPOS_PER_PAGE) + 1
            /\ allRepos = FirstRepos(srvRepos)

\* C10: listAllUserRepos never throws (no step of it reaches the catch of main), asks
\* for the pages in order, stops at the first page that is empty, short or failed, and
\* returns the pages received before that in page order (the short page included);
\* getAllStats then goes on with what was collected.
C10_ListingNeverThrows ==
  [][/\ pc = "list" => /\ pc' \in {"list", "user", "commits", "search"}
                       /\ page' = IF pc' = "list" THEN page + 1 ELSE page
                       /\ error' = "none"
     /\ ListingResult']_vars

\* C10 witness: a full page and then a short page were received, and the loop over
\* the three repositories is about to start.
C10_Witness ==
  /\ pc \in {"user", "commits"}
  /\ repoIdx <= 1
  /\ ~listFailed
  /\ page = 2
  /\ srvRepos = REPOS_PER_PAGE + 1
  /\ Len(allRepos) = REPOS_PER_PAGE + 1

----------------------------------------------------------------------------
(* Properties of main *)

GifMessage == "GIF gerado e salvo como retro-stats.gif"

ReadmeMessage == "README.md gerado com sucesso!"

\* The messages main logs when every step of it has completed.
SuccessLog(v) ==
  IF v = "md" THEN <<"Arquivo retro-stats.md atualizado com sucesso!">>
  ELSE <<GifMessage, ReadmeMessage>>

\* The messages main has logged when the step that threw e is reached.
LogBefore(e) == IF e = "readme" THEN <<GifMessage>> ELSE <<>>

\* C8 (as claimed): the write stream of retro-stats.gif is closed, all data written,
\* before main logs a success message and before the process ends.
C8_StreamClosedBeforeSuccess ==
  /\ (variant # "md" /\ out # <<>>) => stream = "closed"
  /\ (pc = "exited" /\ stream # "none") => stream = "closed"

----------------------------------------------------------------------------
(* The ranking of getAllStats on its own: every tally of up to MaxLangs languages *)

\* The largest number of languages in a tally.
MaxLangs == 5

\* The largest total of one language; totals are byte counts, at least 1.
MaxTotal == 3

\* The keys of languageTotals, in insertion order.
LangNames == <<"JavaScript", "HTML", "Python", "CSS", "Shell", "Go", "Rust", "C">>

\* The tallies whose k-th key is LangNames[k].
Tallies ==
  UNION { { [k \in 1..n |-> [lang |-> LangNames[k], total |-> t[k]]] :
            t \in [1..n -> 1..MaxTotal] } : n \in 0..MaxLangs }

\* getAllStats has left its loop over the repositories with some tally.
InitRank ==
  /\ FreshLoop
  /\ FreshStats
  /\ FreshMain
  /\ GifIdle
  /\ variant \in {"gif80", "gif39"}
  /\ srvRepos = 0
  /\ slots = NoSlots(IF variant = "gif80" THEN 4 ELSE 2)
  /\ languageTotals \in Tallies
  /\ pc = "rank"

\* The scan of Object.entries(languageTotals).
RankTally ==
  /\ pc = "rank"
  /\ pc' = "ranked"
  /\ slots' = RankLanguages(variant, languageTotals)
  /\ UNCHANGED <<gifVars, variant, srvRepos, listVars, userCreatedAt, repoIdx, commitVars,
                 histVars, accVars, searchVars, tailVars, error>>

NextRank == RankTally

SpecRank == InitRank /\ [][NextRank]_vars

\* Entry a of the tally ranks before entry b: a larger total, or the same total and
\* an earlier insertion.
RanksBefore(tally, a, b) ==
  \/ tally[a].total > tally[b].total
  \/ tally[a].total = tally[b].total /\ a < b

\* The place of entry a in the stable descending order of the tally.
PlaceOf(tally, a) ==
  1 + Cardinality({b \in 1..Len(tally) : b # a /\ RanksBefore(tally, b, a)})

\* The 4-slot scan has run over a tally of at least four languages.
RankedFour == pc = "ranked" /\ variant = "gif80" /\ Len(languageTotals) >= 4

\* Slot k holds the entry at place k of the stable descending order.
TopFourStable ==
  \A k \in 1..4 : \E a \in 1..Len(languageTotals) :
     /\ PlaceOf(languageTotals, a) = k
     /\ slots[k] = [lang |-> languageTotals[a].lang, value |-> languageTotals[a].total]

\* C1 (amended): for a tally of at least four languages the four reported languages
\* are the four largest totals in descending order, equal totals allowed, and among
\* equal totals the language inserted earlier ranks higher and is the one kept.
C1_TopFourDescendingStable == RankedFour => TopFourStable

\* C1 (as claimed): the same, with the four totals strictly descending.
C1_TopFourStrictlyDescending ==
  RankedFour => /\ TopFourStable
                /\ \A k \in 1..3 : slots[k].value > slots[k + 1].value

\* C1 witness: five languages with totals 1, 2, 2, 3, 2; the first is evicted, the
\* three equal totals keep their insertion order behind the largest.
C1_Witness ==
  /\ RankedFour
  /\ Len(languageTotals) = 5
  /\ [k \in 1..5 |-> languageTotals[k].total] = <<1, 2, 2, 3, 2>>
  /\ [k \in 1..4 |-> slots[k].lang] = <<"CSS", "HTML", "Python", "Shell">>

----------------------------------------------------------------------------
(* The panel of main on its own: every result getAllStats can hand to main *)

\* Names a repository can have: 'N/A' when none was active, then names of 15, 17 and
\* 57 characters (GitHub allows 100).
PanelRepoNames ==
  {"N/A", "retro-stats-gif", "retro-stats-panel",
   "awesome-collection-of-retro-terminal-statistics-panels-js"}

\* Counts of the last 7 days: none, and the largest values of 2, 3 and 4 digits.
PanelCounts == {0, 42, 999, 1000}

\* Tallies the loop can leave: none, four short names, one name of 16 characters.
PanelTallies ==
  { <<>>,
    <<[lang |-> "JavaScript", total |-> 1000], [lang |-> "HTML", total |-> 200],
      [lang |-> "CSS", total |-> 200], [lang |-> "Shell", total |-> 10]>>,
    <<[lang |-> "Python", total |-> 1500], [lang |-> "Jupyter Notebook", total |-> 90000]>> }

\* getAllStats has returned to main.
InitPanel ==
  /\ FreshLoop
  /\ FreshMain
  /\ GifIdle
  /\ variant \in {"gif80", "gif39"}
  /\ srvRepos \in 0..MaxRepos
  /\ geral = IF variant = "gif80" THEN GeneralStats(FirstRepos(srvRepos))
             ELSE GeneralStats(<<>>)
  /\ userCreatedAt \in IF variant = "gif80" THEN {"N/A", "2015-03-14"} ELSE {"N/A"}
  /\ totalCommits7d \in PanelCounts
  /\ totalPRs7d \in {0, 7}
  /\ totalIssues7d \in PanelCounts
  /\ repoMaisAtivo \in PanelRepoNames
  /\ languageTotals = <<>>
  /\ slots \in {RankLanguages(variant, t) : t \in PanelTallies}
  /\ pc = "panel"

NextPanel == BuildPanel

SpecPanel == InitPanel /\ [][NextPanel]_vars

\* main has evaluated the array literal of asciiLines, to the end or to a throw.
PanelAttempted == asciiLines # <<>> \/ error = "panel"

\* C6 (as claimed): for every statistic row the padding of formatarLinha is not
\* negative, so the row is produced and has exactly the configured width.
C6_PaddingNeverNegative ==
  PanelAttempted =>
    /\ error # "panel"
    /\ \A k \in DOMAIN Rows(variant, Stats) :
         LET row == Rows(variant, Stats)[k]
         IN  /\ espacoDisponivel(LARGURA_LINHA(variant), row[1], row[2]) >= 0
             /\ Len(asciiLines[k]) = LARGURA_LINHA(variant)

\* C7: every border line, separator line and centered title line of a panel that was
\* built has exactly LARGURA_LINHA characters, 39 or 80 by variant.
C7_FrameLinesHaveWidth ==
  asciiLines # <<>> =>
    \A k \in FrameLines(variant) : Len(asciiLines[k]) = LARGURA_LINHA(variant)

\* C7 witness: the 80-column panel was built; the title of line 2 leaves 45 spaces,
\* 22 to its left and 23 to its right.
C7_Witness ==
  /\ variant = "gif80"
  /\ pc = "gif"
  /\ Len(asciiLines) = 25
  /\ asciiLines[2] = "| " \o repeat(" ", 22) \o Titles80[2] \o repeat(" ", 23) \o " |"
  /\ Len(asciiLines[1]) = LARGURA_LINHA_80

----------------------------------------------------------------------------
(* generateGif frame by frame *)

\* The largest number of lines of a panel given to generateGif.
MaxLines == 3

\* The largest number of characters of one line.
MaxLineLen == 3

\* DELAY and END_DELAY of the 39-column script, the frames of its pause loop.
DELAY == 100

END_DELAY_39 == 2000

PauseFrames39 == 3

\* LINE_DURATION and END_DELAY of the 80-column script, the delay of its pause frame.
LINE_DURATION == 500

END_DELAY_80 == 3000

PauseDelay80 == 100

\* Math.floor(LINE_DURATION / 0) of an empty line.
Infinity == "Infinity"

Alphabet == <<"a", "b", "c", "d", "e", "f", "g", "h", "i", "j", "k", "l", "m",
              "n", "o", "p", "q", "r", "s", "t", "u", "v", "w", "x", "y", "z">>

\* A line of n characters, as the sequence of its characters; the lines of a panel
\* differ from one another and so do the characters of a line.
LineText(i, n) == [j \in 1..n |-> Alphabet[(((i - 1) * 7 + j - 1) % Len(Alphabet)) + 1]]

\* The panels of up to MaxLines lines of up to MaxLineLen characters.
GifPanels ==
  UNION { { [i \in 1..n |-> LineText(i, len[i])] : len \in [1..n -> 0..MaxLineLen] } :
          n \in 0..MaxLines }

\* A panel with lines as long as those of the 80-column panel: a full row and the
\* ` Last update: ... ` line.
WidePanel == <<LineText(1, LARGURA_LINHA_80), LineText(2, Len(linhaUpdate))>>

\* Math.ceil(a / b) of positive integers.
Ceil(a, b) == (a + b - 1) \div b

\* const charDelay = Math.floor(LINE_DURATION / charsInLine);
charDelayFixed(charsInLine) == DELAY

charDelay(charsInLine) ==
  IF charsInLine = 0 THEN Infinity ELSE LINE_DURATION \div charsInLine

\* The frames added after each line, and at the end.
PauseFrames(v) == IF v = "gif80" THEN 1 ELSE PauseFrames39

framesNoFinalOne(v) == 1

framesNoFinal(v) == IF v = "gif80" THEN 1 ELSE Ceil(END_DELAY_39, DELAY)

\* drawFrame(ctx, typedLines, WIDTH, HEIGHT); encoder.addFrame(ctx);
Frame(kind, i, j, typed, d) ==
  [kind |-> kind, line |-> i, char |-> j, lines |-> typed, delay |-> d]

\* typedLines[i] += fullLine[j];
TypeCharOverwrite(typed, full, i, j) == [typed EXCEPT ![i] = <<full[i][j]>>]

TypeChar(typed, full, i, j) == [typed EXCEPT ![i] = Append(@, full[i][j])]

\* main calls generateGif(asciiLines) with some panel.
InitGif ==
  /\ FreshLoop
  /\ FreshStats
  /\ FreshMain
  /\ languageTotals = <<>>
  /\ variant \in {"gif80", "gif39"}
  /\ srvRepos = 0
  /\ slots = NoSlots(IF variant = "gif80" THEN 4 ELSE 2)
  /\ pc = "gif"
  /\ gifLines \in GifPanels \cup {WidePanel}
  /\ typedLines = <<>>
  /\ gi = 1
  /\ gj = 1
  /\ gx = 0
  /\ delay = 0
  /\ frames = <<>>
  /\ gpc = "idle"

mainVars == <<variant, srvRepos, pc, gsVars, tailVars, error>>

\* encoder.start() ... const typedLines = asciiLines.map(() => '');
\* the 39-column script sets DELAY once, here.
GifStart ==
  /\ gpc = "idle"
  /\ gpc' = "line"
  /\ typedLines' = [k \in 1..Len(gifLines) |-> <<>>]
  /\ delay' = IF variant = "gif80" THEN delay ELSE DELAY
  /\ UNCHANGED <<mainVars, gifLines, gi, gj, gx, frames>>

\* for (let i = 0; i < asciiLines.length; i++) { const fullLine = asciiLines[i]; ...
\* the 80-column script sets charDelay for the line; after the last line the final
\* delay is set.
GifNextLine ==
  /\ gpc = "line"
  /\ IF gi <= Len(gifLines)
     THEN /\ gpc' = "type"
          /\ gj' = 1
          /\ delay' = IF variant = "gif80" THEN charDelay(Len(gifLines[gi])) ELSE delay
          /\ UNCHANGED gx
     ELSE /\ gpc' = "hold"
          /\ gx' = 0
          /\ delay' = IF variant = "gif80" THEN END_DELAY_80 ELSE DELAY
          /\ UNCHANGED gj
  /\ UNCHANGED <<mainVars, gifLines, typedLines, gi, frames>>

\* for (let j = 0; j < fullLine.length; j++) { typedLines[i] += fullLine[j]; frame }
\* after the last character the pause begins, in the 80-column script with setDelay(100).
GifTypeChar ==
  /\ gpc = "type"
  /\ IF gj <= Len(gifLines[gi])
     THEN /\ typedLines' = TypeChar(typedLines, gifLines, gi, gj)
          /\ frames' = Append(frames, Frame("type", gi, gj, typedLines', delay))
          /\ gj' = gj + 1
          /\ UNCHANGED <<gpc, gx, delay>>
     ELSE /\ gpc' = "pause"
          /\ gx' = 0
          /\ delay' = IF variant = "gif80" THEN PauseDelay80 ELSE delay
          /\ UNCHANGED <<typedLines, frames, gj>>
  /\ UNCHANGED <<mainVars, gifLines, gi>>

\* for (let x = 0; x < 3; x++) { frame } of the 39-column script, the one frame of the
\* 80-column script; then i++.
GifPauseFrame ==
  /\ gpc = "pause"
  /\ IF gx < PauseFrames(variant)
     THEN /\ frames' = Append(frames, Frame("pause", gi, gx + 1, typedLines, delay))
          /\ gx' = gx + 1
          /\ UNCHANGED <<gpc, gi>>
     ELSE /\ gpc' = "line"
          /\ gi' = gi + 1
          /\ UNCHANGED <<frames, gx>>
  /\ UNCHANGED <<mainVars, gifLines, typedLines, gj, delay>>

\* for (let i = 0; i < framesNoFinal; i++) { frame } of the 39-column script, the one
\* frame of the 80-column script; then encoder.finish().
GifHoldFrame ==
  /\ gpc = "hold"
  /\ IF gx < framesNoFinal(variant)
     THEN /\ frames' = Append(frames, Frame("hold", gi, gx + 1, typedLines, delay))
          /\ gx' = gx + 1
          /\ UNCHANGED gpc
     ELSE /\ gpc' = "finished"
          /\ UNCHANGED <<frames, gx>>
  /\ UNCHANGED <<mainVars, gifLines, typedLines, gi, gj, delay>>

NextGif ==
  \/ GifStart
  \/ GifNextLine
  \/ GifTypeChar
  \/ GifPauseFrame
  \/ GifHoldFrame

SpecGif == InitGif /\ [][NextGif]_vars

\* The (line, character) pairs of a panel, top to bottom and left to right, for its
\* first n lines.
RECURSIVE TypingOrder(_, _)
TypingOrder(lines, n) ==
  IF n = 0 THEN <<>>
  ELSE TypingOrder(lines, n - 1) \o [j \in 1..Len(lines[n]) |-> <<n, j>>]

RECURSIVE SumOfLengths(_, _)
SumOfLengths(lines, n) ==
  IF n = 0 THEN 0 ELSE SumOfLengths(lines, n - 1) + Len(lines[n])

IsTypingFrame(f) == f.kind = "type"

IsPauseFrame(f) == f.kind = "pause"

\* A frame shows the first j characters of line i, every line above i in full and
\* nothing of the lines below i.
ShowsTyped(f, lines, i, j) ==
  /\ Len(f.lines) = Len(lines)
  /\ f.lines[i] = SubSeq(lines[i], 1, j)
  /\ \A m \in 1..(i - 1) : f.lines[m] = lines[m]
  /\ \A m \in (i + 1)..Len(lines) : f.lines[m] = <<>>

\* generateGif has left its typing loop.
AllTyped == gpc \in {"hold", "finished"}

\* C5: the typing frames come line by line from top to bottom, one for each character;
\* the frame of character j of line i shows the first j characters of line i, the lines
\* above in full and the lines below empty; when the typing loop is left the number of
\* typing frames is the sum of the line lengths and each line has added its pause
\* frames, 3 in the 39-column script and 1 in the 80-column script.
C5_TypingFrames ==
  LET typing == SelectSeq(frames, IsTypingFrame)
      pauses == SelectSeq(frames, IsPauseFrame)
      order == TypingOrder(gifLines, Len(gifLines))
  IN  /\ Len(typing) <= Len(order)
      /\ \A k \in 1..Len(typing) :
           /\ <<typing[k].line, typing[k].char>> = order[k]
           /\ ShowsTyped(typing[k], gifLines, order[k][1], order[k][2])
      /\ \A k \in 1..Len(pauses) :
           ShowsTyped(pauses[k], gifLines, pauses[k].line, Len(gifLines[pauses[k].line]))
      /\ AllTyped =>
           /\ Len(typing) = SumOfLengths(gifLines, Len(gifLines))
           /\ Len(pauses) = (IF variant = "gif80" THEN 1 ELSE 3) * Len(gifLines)

\* C5 witness: the 39-column script has typed three lines of 2, 3 and 1 characters:
\* 6 typing frames and 9 pause frames.
C5_Witness ==
  /\ variant = "gif39"
  /\ gpc = "finished"
  /\ [i \in 1..Len(gifLines) |-> Len(gifLines[i])] = <<2, 3, 1>>
  /\ Len(SelectSeq(frames, IsTypingFrame)) = 6
  /\ Len(SelectSeq(frames, IsPauseFrame)) = 9
  /\ typedLines = gifLines

----------------------------------------------------------------------------
(* Properties of getAllStats over an empty listing *)

\* What getAllStats reports of the repositories when there is nothing to report.
NothingCounted ==
  /\ totalCommits7d = 0
  /\ repoMaisAtivo = "N/A"
  /\ \A k \in 1..Len(slots) : slots[k].lang = "N/A"
  /\ variant = "gif80" => geral.totalRepos = 0

\* listAllUserRepos has returned no repository: the account has none, or the call for
\* its first page failed.
EmptyListing == ListingReturned /\ allRepos = <<>>

\* With an empty listing getAllStats goes from the listing to the profile lookup (80
\* columns) and to the searches, asks for no commits and no languages, and no error
\* is raised by it; the counts are 0 and the names 'N/A', and stay so up to the return.
AfterEmptyListing ==
  /\ EmptyListing =>
       /\ pc \in {"user", "search"}
       /\ commitCounts = <<>>
       /\ langHistory = <<>>
       /\ languageTotals = <<>>
       /\ error = "none"
       /\ NothingCounted
  /\ (pc = "panel" /\ srvRepos = 0) => NothingCounted

\* C11: when listAllUserRepos returns zero repositories, getAllStats makes no
\* commit-listing and no language call, does not fail because of it, and returns
\* 0 commits, 'N/A' as most active repository, 'N/A' in every language slot and
\* (80 columns) totalRepos = 0; the searches change none of these.
C11_ZeroRepositories ==
  [][/\ AfterEmptyListing'
     /\ (EmptyListing /\ pc = "search" /\ pc' = "panel") =>
          /\ NothingCounted'
          /\ <<totalCommits7d, repoMaisAtivo, slots, geral>>' =
               <<totalCommits7d, repoMaisAtivo, slots, geral>>]_vars

\* C11 witness: the 80-column script listed an account that has no repository and
\* is now counting the issues.
C11_Witness ==
  /\ variant = "gif80"
  /\ srvRepos = 0
  /\ EmptyListing
  /\ ~listFailed
  /\ pc = "search"
  /\ squery = "issue"
  /\ NothingCounted
  /\ slots = NoSlots(4)

----------------------------------------------------------------------------
(* Properties of the ranking over tallies with fewer languages than slots *)

\* The scan has run over a tally with fewer languages than the script has slots.
RankedFew == pc = "ranked" /\ Len(languageTotals) < Len(slots)

\* C12: for a tally of k languages, k smaller than the number of slots (4 in the
\* 80-column script, 2 in the 39-column script, k may be 0), the first k slots hold
\* the k languages in descending order of total, earlier insertion first among equal
\* totals, and every other slot is the placeholder 'N/A' with value -1.
C12_MissingSlotsAreNA ==
  RankedFew =>
    /\ Len(slots) = (IF variant = "gif80" THEN 4 ELSE 2)
    /\ \A a \in 1..Len(languageTotals) :
         slots[PlaceOf(languageTotals, a)] =
           [lang |-> languageTotals[a].lang, value |-> languageTotals[a].total]
    /\ \A m \in (Len(languageTotals) + 1)..Len(slots) :
         slots[m] = [lang |-> "N/A", value |-> -1]

\* C12 witness: the 80-column script ranked three languages with totals 1, 3, 2;
\* the fourth slot is the placeholder.
C12_Witness ==
  /\ RankedFew
  /\ variant = "gif80"
  /\ [k \in 1..Len(languageTotals) |-> languageTotals[k].total] = <<1, 3, 2>>
  /\ [k \in 1..4 |-> slots[k].lang] = <<"HTML", "Python", "JavaScript", "N/A">>

----------------------------------------------------------------------------
(* Properties of the 2-slot ranking over the tally of a run *)

\* The 39-column getAllStats has ranked the tally of its loop and has not returned.
RankedTwo == variant = "gif39" /\ pc = "search"

\* Scenario B: the language answers of two repositories, in listing order.
ScenarioB ==
  << <<[lang |-> "JavaScript", count |-> 1000], [lang |-> "HTML", count |-> 200]>>,
     <<[lang |-> "Python", count |-> 1500]>> >>

\* C13: the two languages the 39-column getAllStats reports are those with the two
\* largest totals of the tally accumulated over the repositories, in descending order,
\* the language seen first winning among equal totals; for the answers
\* {JavaScript: 1000, HTML: 200} and {Python: 1500} they are Python and JavaScript.
C13_TopTwoOfRun ==
  RankedTwo =>
    /\ Len(languageTotals) >= 2 =>
         \A k \in 1..2 : \E a \in 1..Len(languageTotals) :
            /\ PlaceOf(languageTotals, a) = k
            /\ slots[k] = [lang |-> languageTotals[a].lang, value |-> languageTotals[a].total]
    /\ langHistory = ScenarioB =>
         slots = <<[lang |-> "Python", value |-> 1500], [lang |-> "JavaScript", value |-> 1000]>>

\* C13 witness: scenario B has run.
C13_Witness ==
  /\ RankedTwo
  /\ langHistory = ScenarioB
  /\ Len(languageTotals) = 3
  /\ slots[1].lang = "Python"
  /\ slots[2].lang = "JavaScript"

----------------------------------------------------------------------------
(* Properties of the final hold of generateGif *)

IsHoldFrame(f) == f.kind = "hold"

RECURSIVE SumOfDelays(_)
SumOfDelays(fs) == IF fs = <<>> THEN 0 ELSE Head(fs).delay + SumOfDelays(Tail(fs))

\* C14: once a frame shows the whole panel every later frame shows it too; the frames
\* of the final loop show the whole panel and are the last of the sequence; when
\* generateGif is done their delays add up to at least END_DELAY: 20 frames of 100 ms
\* for the 2000 ms of the 39-column script, one frame of 3000 ms in the 80-column script.
C14_FinalHold ==
  LET holds == SelectSeq(frames, IsHoldFrame)
  IN  /\ \A k \in 1..Len(frames) :
           /\ frames[k].lines = gifLines => \A m \in k..Len(frames) : frames[m].lines = gifLines
           /\ frames[k].kind = "hold" =>
                /\ frames[k].lines = gifLines
                /\ \A m \in k..Len(frames) : frames[m].kind = "hold"
      /\ gpc = "finished" =>
           /\ Len(holds) = (IF variant = "gif80" THEN 1 ELSE 20)
           /\ SumOfDelays(holds) >= (IF variant = "gif80" THEN 3000 ELSE 2000)
           /\ \A k \in 1..Len(holds) : holds[k].delay = (IF variant = "gif80" THEN 3000 ELSE 100)

\* C14 witness: the 39-column script is done with a panel of three lines, the last
\* of them not empty; its 20 final frames hold the panel for 2000 ms.
C14_Witness ==
  /\ variant = "gif39"
  /\ gpc = "finished"
  /\ Len(gifLines) = 3
  /\ Len(gifLines[3]) = 2
  /\ Len(SelectSeq(frames, IsHoldFrame)) = 20
  /\ SumOfDelays(SelectSeq(frames, IsHoldFrame)) = 2000
  /\ frames[Len(frames)].lines = gifLines

----------------------------------------------------------------------------
(* Properties of the profile lookup of the 80-column getAllStats *)

\* C15: whether octokit.users.getByUsername succeeds or fails, getAllStats goes on to
\* its loop (or to the searches when there is no repository) with no error raised and
\* with every other variable as it was; the lookup decides userCreatedAt alone, which
\* is 'N/A' after a failure and a date after a success.
C15_ProfileLookupFailure ==
  [][pc = "user" =>
       /\ pc' = IF allRepos # <<>> THEN "commits" ELSE "search"
       /\ error' = "none"
       /\ userCreatedAt' \in {"N/A", "2015-03-14"}
       /\ <<allRepos, geral, totalCommits7d, repoMaisAtivo, maxCommitsNoRepo, languageTotals,
            commitCounts, langHistory, totalPRs7d, totalIssues7d, out, err, exitCode>>' =
          <<allRepos, geral, totalCommits7d, repoMaisAtivo, maxCommitsNoRepo, languageTotals,
            commitCounts, langHistory, totalPRs7d, totalIssues7d, out, err, exitCode>>
       /\ slots' = NoSlots(4)
       /\ repoIdx' = IF allRepos # <<>> THEN 1 ELSE 0]_vars

\* C15 witness: the lookup failed, and the run went on to count a commit of the one
\* repository and to build the panel with 'N/A' as the creation date.
C15_Witness ==
  /\ variant = "gif80"
  /\ pc = "gif"
  /\ userCreatedAt = "N/A"
  /\ geral.totalRepos = 1
  /\ totalCommits7d = 1
  /\ asciiLines[16] = formatarLinha(LARGURA_LINHA_80, "Conta criada em:", "N/A")

----------------------------------------------------------------------------
(* The order of the calls of getAllStats *)

\* Where getAllStats stands tells which calls have completed: none but the listing
\* before the loop; in the loop, all calls of the repositories before the current one,
\* and at the language call the commit listing of the current one too; at the searches,
\* all calls of all repositories.
CallsInOrder ==
  /\ pc \in {"list", "user"} =>
       /\ repoIdx = 0
       /\ commitCounts = <<>>
       /\ langHistory = <<>>
       /\ searchCalls = <<>>
  /\ pc = "list" => userCreatedAt = "N/A"
  /\ pc = "commits" =>
       /\ repoIdx \in 1..Len(allRepos)
       /\ Len(commitCounts) = repoIdx - 1
       /\ Len(langHistory) = repoIdx - 1
       /\ searchCalls = <<>>
  /\ pc = "langs" =>
       /\ repoIdx \in 1..Len(allRepos)
       /\ Len(commitCounts) = repoIdx
       /\ Len(langHistory) = repoIdx - 1
       /\ searchCalls = <<>>
  /\ pc = "search" =>
       /\ Len(commitCounts) = Len(allRepos)
       /\ Len(langHistory) = Len(allRepos)
       /\ squery = "pr" => searchCalls = [k \in 1..(spage - 1) |-> k]

\* C16: getAllStats issues its calls one after the other in a fixed order: every step
\* of it is the completion of the one call it waits for; the listing completes before
\* any call for a repository; for a repository the pages of the commit listing come
\* first, then its language call, then the next repository in listing order; the
\* pull-request search starts after the last repository and the issue search after it.
C16_CallsOneAtATime ==
  [][/\ CallsInOrder'
     /\ pc = "list" => /\ pc' \in {"list", "user", "commits", "search"}
                       /\ pc' = "commits" => repoIdx' = 1
     /\ pc = "user" => /\ pc' \in {"commits", "search"}
                       /\ allRepos' = allRepos
                       /\ pc' = "commits" => repoIdx' = 1
     /\ pc = "commits" =>
          /\ pc' \in {"commits", "langs", "catch"}
          /\ pc' = "commits" => (repoIdx' = repoIdx /\ cpage' = cpage + 1)
          /\ pc' = "langs" => (repoIdx' = repoIdx /\ allRepos' = allRepos)
     /\ pc = "langs" =>
          \/ pc' = "commits" /\ repoIdx' = repoIdx + 1 /\ allRepos' = allRepos
          \/ pc' = "search" /\ repoIdx = Len(allRepos) /\ squery' = "pr" /\ spage' = 1
     /\ pc = "search" =>
          /\ pc' \in {"search", "panel", "catch"}
          /\ pc' = "search" =>
               /\ <<commitCounts, langHistory, languageTotals>>' =
                    <<commitCounts, langHistory, languageTotals>>
               /\ squery = "issue" => squery' = "issue"
               /\ squery' = squery => spage' = spage + 1
          /\ pc' = "panel" => squery = "issue"]_vars

\* C16 witness: two repositories, two pages of commits for the first and one for the
\* second, a language call for each, the pull-request search done, the issue search
\* running.
C16_Witness ==
  /\ variant = "gif80"
  /\ pc = "search"
  /\ squery = "issue"
  /\ Len(allRepos) = 2
  /\ commitCounts = <<perPage, 1>>
  /\ Len(langHistory) = 2
  /\ userCreatedAt # "N/A"

----------------------------------------------------------------------------
(* Properties of the language tally *)

\* The bytes of `lang` in one answer of repos.listLanguages.
RECURSIVE BytesIn(_, _)
BytesIn(langs, lang) ==
  IF langs = <<>> THEN 0
  ELSE (IF Head(langs).lang = lang THEN Head(langs).count ELSE 0) + BytesIn(Tail(langs), lang)

\* The bytes of `lang` over the answers received so far; a failed call is no answer.
RECURSIVE BytesOver(_, _)
BytesOver(history, lang) ==
  IF history = <<>> THEN 0
  ELSE BytesIn(Head(history), lang) + BytesOver(Tail(history), lang)

\* languageTotals[lang], 0 for a language that is no key of it.
TallyOf(tally, lang) == IF IndexOf(tally, lang) = 0 THEN 0 ELSE tally[IndexOf(tally, lang)].total

AnsweredLanguages == {"JavaScript", "HTML", "Python", "CSS"}

\* In the loop and after it the tally of each language is the sum of its bytes over
\* the answers received, and the tally has a key for a language only if it was answered.
TallyIsSum ==
  pc \in {"commits", "langs", "search"} =>
    /\ \A lang \in AnsweredLanguages :
         TallyOf(languageTotals, lang) = BytesOver(langHistory, lang)
    /\ \A k \in 1..Len(languageTotals) :
         /\ languageTotals[k].lang \in AnsweredLanguages
         /\ \A m \in 1..Len(languageTotals) :
              languageTotals[m].lang = languageTotals[k].lang => m = k

\* C17: after every repository the tally of each language is the sum of its byte
\* counts over the repositories whose language call succeeded; a failed language call
\* leaves the tally as it was, raises no error, and the loop goes on with the next
\* repository (or with the searches after the last one).
C17_TallyIsSumOfAnswers ==
  [][/\ TallyIsSum'
     /\ (pc = "langs" /\ langHistory' = Append(langHistory, <<>>)) =>
          /\ languageTotals' = languageTotals
          /\ error' = "none"
          /\ pc' = IF repoIdx < Len(allRepos) THEN "commits" ELSE "search"]_vars

\* C17 witness: three repositories; the first and the third answer {Python: 1500},
\* the call for the second fails; the tally is Python 3000.
C17_Witness ==
  /\ pc = "search"
  /\ Len(langHistory) = 3
  /\ langHistory[1] = <<[lang |-> "Python", count |-> 1500]>>
  /\ langHistory[2] = <<>>
  /\ langHistory[3] = langHistory[1]
  /\ languageTotals = <<[lang |-> "Python", total |-> 3000]>>

----------------------------------------------------------------------------
(* Properties of the delays of the 80-column generateGif *)

\* The number of pause frames among the first n frames.
PausesBefore(n) == Cardinality({m \in 1..n : frames[m].kind = "pause"})

\* Line i has been typed and its pause frame added.
LineDone(i) == \E k \in 1..Len(frames) : frames[k].kind = "pause" /\ frames[k].line = i

\* The delays of the typing frames of line i, added up.
TypingTime(i) ==
  LET OfLine(f) == f.kind = "type" /\ f.line = i
  IN  SumOfDelays(SelectSeq(frames, OfLine))

\* C18: in the 80-column script every typing frame of a line of L characters has the
\* delay floor(500 / L), which is at least 1 ms for the lines of a panel; the typing
\* frames of a finished line add up to at most 500 ms and to more than 500 - L ms; each
\* line is followed by exactly one pause frame of 100 ms before the next line starts.
C18_CharDelay ==
  variant = "gif80" =>
    /\ \A k \in 1..Len(frames) :
         /\ frames[k].kind = "type" =>
              /\ frames[k].delay = 500 \div Len(gifLines[frames[k].line])
              /\ frames[k].delay >= 1
              /\ PausesBefore(k) = frames[k].line - 1
         /\ frames[k].kind = "pause" =>
              /\ frames[k].delay = 100
              /\ PausesBefore(k) = frames[k].line
         /\ frames[k].kind = "hold" => PausesBefore(k) = Len(gifLines)
    /\ \A i \in 1..Len(gifLines) :
         (LineDone(i) /\ Len(gifLines[i]) >= 1) =>
           /\ TypingTime(i) <= 500
           /\ TypingTime(i) > 500 - Len(gifLines[i])

\* C18 witness: the 80-column script has typed a line of 80 characters at 6 ms a
\* character, 480 ms in all, and the pause frame after it.
C18_Witness ==
  /\ variant = "gif80"
  /\ gpc = "finished"
  /\ gifLines = WidePanel
  /\ frames[1].delay = 6
  /\ TypingTime(1) = 480
  /\ frames[LARGURA_LINHA_80 + 1].kind = "pause"
  /\ frames[LARGURA_LINHA_80 + 1].delay = 100

----------------------------------------------------------------------------
(* The invariant of the loop of getAllStats over the repositories *)

RECURSIVE SumOfCounts(_)
SumOfCounts(counts) == IF counts = <<>> THEN 0 ELSE Head(counts) + SumOfCounts(Tail(counts))

\* The largest of the counts, 0 when there is none.
LargestCount(counts) == IF counts = <<>> THEN 0 ELSE MaxOf(counts)

\* C19: in the loop and after it, commitCounts being the counts obtained for the
\* repositories processed so far: totalCommits7d is their sum, maxCommitsNoRepo the
\* largest of them (0 if none), repoMaisAtivo is 'N/A' exactly when that is 0 and
\* otherwise the name of a processed repository with that count; a repository with
\* no commit is never the most active.
C19_LoopInvariant ==
  pc \in {"commits", "langs", "search"} =>
    /\ Len(commitCounts) <= Len(allRepos)
    /\ totalCommits7d = SumOfCounts(commitCounts)
    /\ maxCommitsNoRepo = LargestCount(commitCounts)
    /\ repoMaisAtivo = "N/A" <=> LargestCount(commitCounts) = 0
    /\ LargestCount(commitCounts) > 0 =>
         \E k \in 1..Len(commitCounts) :
            /\ allRepos[k].name = repoMaisAtivo
            /\ commitCounts[k] = LargestCount(commitCounts)
    /\ \A k \in 1..Len(commitCounts) :
         commitCounts[k] = 0 => allRepos[k].name # repoMaisAtivo

\* C19 witness: three repositories with 1, 0 and 100 commits; the third is the most
\* active, the total is 101.
C19_Witness ==
  /\ pc = "langs"
  /\ commitCounts = <<1, 0, perPage>>
  /\ totalCommits7d = perPage + 1
  /\ maxCommitsNoRepo = perPage
  /\ repoMaisAtivo = allRepos[3].name

====
